---- MODULE Spec2Model ----
(***************************************************************************)
(* Food Delivery API (src/main.py, src/schemas.py): the cart, order and    *)
(* catalog handlers over the four collections restaurant, menuitem, cart   *)
(* and order.                                                              *)
(*                                                                         *)
(* A handler that makes several store calls is one action per store call.  *)
(* Spec is the single uvicorn process main.py:197-200 starts: the handlers *)
(* are coroutines without a suspension point, so a request runs to its     *)
(* reply, or fails at a store call, before the next one is taken.          *)
(* WorkersSpec is the same handlers served by several worker processes     *)
(* over the one shared store: there requests interleave between store      *)
(* calls.                                                                  *)
(***************************************************************************)
EXTENDS Naturals, Sequences, FiniteSets, TLC

\* ------------------------------------------------------------- bounds
Workers == {"w1", "w2"}
MainWorker == "w1"
Users == {"u1", "u2"}
\* Documents the catalog may hold.
MaxRestaurants == 1
MaxMenuItems == 1
\* Cart and order requests that go on to write the store; reads and rejected
\* requests are not limited.
MaxRequests == 2

\* ------------------------------------------------------------ schemas
\* CartItem.quantity: int = Field(1, ge=1)
MinQuantity == 1

\* Order.status: str = Field("placed", description="placed | preparing | ...")
DefaultStatus == "placed"
DocumentedStatuses == {"placed", "preparing", "on-the-way", "delivered"}
NoStatus == "<absent>"

\* The Order model: status is any string, "placed" when the body has none.
Order(status_in) == IF status_in = NoStatus THEN DefaultStatus ELSE status_in

\* The CartItem model: the body is rejected unless quantity >= 1.
CartItem(it) == it.quantity >= MinQuantity

\* ----------------------------------------------------------- identifiers
\* An id string sent by a client is either the hex rendering of an ObjectId
\* or some other text; ObjectId(text) raises on the latter.
Hex(n) == <<"hex", n>>
Raw == <<"raw", 0>>
IdStrings(max) == {Hex(n) : n \in 1..max} \cup {Raw}
ObjectIdValid(id_str) == id_str[1] = "hex"
ObjectId(id_str) == id_str[2]

\* to_object_id: the ObjectId, or HTTP 400 "Invalid id format".
to_object_id(id_str) ==
    IF ObjectIdValid(id_str)
    THEN [code |-> 200, oid |-> ObjectId(id_str)]
    ELSE [code |-> 400, oid |-> 0]

\* ------------------------------------------------------------------ state
VARIABLES
    restaurant,  \* collection restaurant: the set of _id
    menuitem,    \* collection menuitem: set of [id, restaurant_id]
    cart,        \* collection cart, in natural (insertion) order
    order,       \* collection order, in natural (insertion) order
    clock,       \* the time of the latest create_document("order", ...)
    pc,          \* where each worker's request stands
    req,         \* the locals of each worker's request in flight
    resp,        \* the response sent by the latest step, NoResp if none
    lastCartId,  \* per user, the cart id of the latest GET /api/cart reply
    requests     \* cart and order requests admitted to a store write so far

vars == <<restaurant, menuitem, cart, order, clock, pc, req, resp, lastCartId,
          requests>>
store == <<restaurant, menuitem, cart, order, clock>>

NoItem == [menu_item_id |-> Raw, quantity |-> 0]
NoReq ==
    [op |-> "none", user |-> "none", id |-> 0, before |-> <<>>, item |-> NoItem,
     earlier |-> 0, arg |-> Raw]
\* A reply: op, code and the body's id, items, list, status; beside them what
\* the request sent (user, arg, item) and what held when it arrived (before:
\* the user's cart items, earlier: the cart id a GET had last replied). An
\* error reply is a code and a detail text: it names no user.
NoResp ==
    [op |-> "none", code |-> 0, user |-> "none", id |-> 0, items |-> <<>>,
     list |-> <<>>, status |-> "none", arg |-> Raw, before |-> <<>>,
     item |-> NoItem, earlier |-> 0]

\* Request bodies: a quantity below the minimum and the minimum; an id that
\* may exist, one past the catalog's bound, and a malformed one.
CartItemInputs ==
    [menu_item_id : IdStrings(MaxMenuItems + 1),
     quantity : {MinQuantity - 1, MinQuantity}]
OrderInputs ==
    {[items |-> <<>>, status |-> NoStatus],
     [items |-> <<[menu_item_id |-> Hex(1), quantity |-> MinQuantity]>>,
      status |-> "preparing"],
     [items |-> <<[menu_item_id |-> Hex(1), quantity |-> MinQuantity]>>,
      status |-> "cooked"]}

\* ------------------------------------------------------- store primitives
\* find_one({"user_id": u}): the first matching document's position, 0 for None.
find_one_cart(c, u) ==
    LET hits == {i \in 1..Len(c) : c[i].user_id = u}
    IN IF hits = {} THEN 0 ELSE CHOOSE i \in hits : \A j \in hits : i <= j

\* The item sequence get_cart shows for u over collection c.
cart_items(c, u) ==
    LET i == find_one_cart(c, u) IN IF i = 0 THEN <<>> ELSE c[i].items

\* insert_one(doc): the store assigns the _id.
insert_one_cart(c, u, items) ==
    Append(c, [id |-> Len(c) + 1, user_id |-> u, items |-> items])

\* update_one({"user_id": u}, {"$set": {"items": []}}): first match, no upsert.
update_one_set_empty(c, u) ==
    LET i == find_one_cart(c, u)
    IN IF i = 0 THEN c ELSE [c EXCEPT ![i].items = <<>>]

\* update_one({"user_id": u}, {"$setOnInsert": ..., "$push": {"items": it}},
\*            upsert=True)
update_one_push_upsert(c, u, it) ==
    LET i == find_one_cart(c, u)
    IN IF i = 0 THEN insert_one_cart(c, u, <<it>>)
       ELSE [c EXCEPT ![i].items = Append(@, it)]

\* create_document("order", order): the record's fields, stamped with the
\* creation time, inserted under a fresh _id.
create_document(o, fields, now) ==
    Append(o, [id |-> Len(o) + 1, user_id |-> fields.user_id,
               items |-> fields.items, status |-> fields.status,
               created_at |-> now])

Init ==
    /\ restaurant = {}
    /\ menuitem = {}
    /\ cart = <<>>
    /\ order = <<>>
    /\ clock = 0
    /\ pc = [w \in Workers |-> "idle"]
    /\ req = [w \in Workers |-> NoReq]
    /\ resp = NoResp
    /\ lastCartId = [u \in Users |-> 0]
    /\ requests = 0

\* A cart or order request that goes on to write the store.
Admit == requests < MaxRequests /\ requests' = requests + 1

\* ------------------------------------------------------------- catalog
\* POST /api/restaurants
create_restaurant(w) ==
    /\ pc[w] = "idle"
    /\ Cardinality(restaurant) < MaxRestaurants
    /\ LET inserted_id == Cardinality(restaurant) + 1
       IN /\ restaurant' = restaurant \cup {inserted_id}
          /\ resp' = [NoResp EXCEPT !.op = "create_restaurant", !.code = 200,
                                    !.id = inserted_id]
    /\ UNCHANGED <<menuitem, cart, order, clock, pc, req, lastCartId, requests>>

create_menu_item_code_nocheck(rest, rid) ==
    to_object_id(rid).code

\* create_menu_item up to its create_document: 400 on a malformed
\* restaurant_id, 404 when no restaurant has it, else 200.
create_menu_item_code(rest, rid) ==
    IF to_object_id(rid).code # 200 THEN to_object_id(rid).code
    ELSE IF to_object_id(rid).oid \notin rest THEN 404
    ELSE 200

\* POST /api/menu
create_menu_item(w, rid) ==
    /\ pc[w] = "idle"
    /\ LET code == create_menu_item_code(restaurant, rid)
           inserted_id == Cardinality(menuitem) + 1
       IN IF code # 200
          THEN /\ menuitem' = menuitem
               /\ resp' = [NoResp EXCEPT !.op = "create_menu_item", !.code = code,
                                         !.arg = rid]
          ELSE /\ Cardinality(menuitem) < MaxMenuItems
               /\ menuitem' = menuitem \cup
                     {[id |-> inserted_id, restaurant_id |-> rid]}
               /\ resp' = [NoResp EXCEPT !.op = "create_menu_item", !.code = 200,
                                         !.id = inserted_id, !.arg = rid]
    /\ UNCHANGED <<restaurant, cart, order, clock, pc, req, lastCartId, requests>>

\* ---------------------------------------------------------------- cart
get_cart_find_one_nothing(c, u) ==
    0

\* get_cart's db["cart"].find_one({"user_id": user_id})
get_cart_find_one(c, u) ==
    find_one_cart(c, u)

\* get_cart's body from its find_one on: reply with the document found, or
\* go on to insert an empty one.
get_cart_lookup(w, u, op, before, item, earlier) ==
    LET i == get_cart_find_one(cart, u)
    IN IF i # 0
       THEN /\ resp' = [NoResp EXCEPT !.op = op, !.code = 200, !.user = u,
                                      !.id = cart[i].id, !.items = cart[i].items,
                                      !.before = before, !.item = item,
                                      !.earlier = earlier]
            /\ pc' = [pc EXCEPT ![w] = "idle"]
            /\ req' = [req EXCEPT ![w] = NoReq]
            /\ lastCartId' = IF op = "get" THEN [lastCartId EXCEPT ![u] = cart[i].id]
                             ELSE lastCartId
       ELSE /\ resp' = NoResp
            /\ pc' = [pc EXCEPT ![w] = "gc_insert"]
            /\ req' = [req EXCEPT ![w] = [NoReq EXCEPT !.op = op, !.user = u,
                                                       !.before = before,
                                                       !.item = item,
                                                       !.earlier = earlier]]
            /\ lastCartId' = lastCartId

\* GET /api/cart/{user_id}: the request and its find_one.
get_cart(w, u) ==
    /\ pc[w] = "idle"
    /\ get_cart_lookup(w, u, "get", <<>>, NoItem, lastCartId[u])
    /\ IF get_cart_find_one(cart, u) = 0 THEN Admit ELSE UNCHANGED requests
    /\ UNCHANGED store

\* `return await get_cart(user_id)` at the end of add_to_cart and clear_cart.
get_cart_find(w) ==
    /\ pc[w] = "gc_find"
    /\ get_cart_lookup(w, req[w].user, req[w].op, req[w].before, req[w].item,
                       req[w].earlier)
    /\ UNCHANGED <<store, requests>>

\* get_cart after `if not cart`: insert_one, then reply with the new document.
get_cart_insert(w) ==
    /\ pc[w] = "gc_insert"
    /\ LET u == req[w].user
           c == insert_one_cart(cart, u, <<>>)
       IN /\ cart' = c
          /\ resp' = [NoResp EXCEPT !.op = req[w].op, !.code = 200, !.user = u,
                                    !.id = c[Len(c)].id, !.items = c[Len(c)].items,
                                    !.before = req[w].before, !.item = req[w].item,
                                    !.earlier = req[w].earlier]
          /\ lastCartId' = IF req[w].op = "get"
                           THEN [lastCartId EXCEPT ![u] = c[Len(c)].id]
                           ELSE lastCartId
    /\ pc' = [pc EXCEPT ![w] = "idle"]
    /\ req' = [req EXCEPT ![w] = NoReq]
    /\ UNCHANGED <<restaurant, menuitem, order, clock, requests>>

add_to_cart_code_nolookup(menu, it) ==
    IF ~CartItem(it) THEN 422
    ELSE IF it.quantity < MinQuantity THEN 400
    ELSE to_object_id(it.menu_item_id).code

\* add_to_cart up to its update_one: 422 from the CartItem model, 400 on
\* quantity < 1 or a malformed menu_item_id, 404 when no menu item has the id.
add_to_cart_code(menu, it) ==
    IF ~CartItem(it) THEN 422
    ELSE IF it.quantity < MinQuantity THEN 400
    ELSE IF to_object_id(it.menu_item_id).code # 200
         THEN to_object_id(it.menu_item_id).code
    ELSE IF \A m \in menu : m.id # to_object_id(it.menu_item_id).oid THEN 404
    ELSE 200

add_to_cart_update_merging(c, u, it) ==
    LET i == find_one_cart(c, u)
    IN IF i # 0 /\ \E k \in 1..Len(c[i].items) :
                      c[i].items[k].menu_item_id = it.menu_item_id
       THEN [c EXCEPT ![i].items =
                [k \in 1..Len(@) |->
                    IF @[k].menu_item_id = it.menu_item_id
                    THEN [@[k] EXCEPT !.quantity = @ + it.quantity]
                    ELSE @[k]]]
       ELSE update_one_push_upsert(c, u, it)

\* add_to_cart's db["cart"].update_one(..., upsert=True)
add_to_cart_update(c, u, it) ==
    update_one_push_upsert(c, u, it)

\* POST /api/cart/{user_id}/add: the request up to and including update_one.
add_to_cart(w, u, it) ==
    /\ pc[w] = "idle"
    /\ LET code == add_to_cart_code(menuitem, it)
       IN IF code # 200
          THEN /\ resp' = [NoResp EXCEPT !.op = "add", !.code = code, !.item = it]
               /\ UNCHANGED <<cart, pc, req, requests>>
          ELSE /\ Admit
               /\ cart' = add_to_cart_update(cart, u, it)
               /\ pc' = [pc EXCEPT ![w] = "gc_find"]
               /\ req' = [req EXCEPT ![w] = [NoReq EXCEPT !.op = "add", !.user = u,
                                                          !.before = cart_items(cart, u),
                                                          !.item = it]]
               /\ resp' = NoResp
    /\ UNCHANGED <<restaurant, menuitem, order, clock, lastCartId>>

clear_cart_update_skipped(c, u) ==
    c

\* clear_cart's db["cart"].update_one(..., {"$set": {"items": []}})
clear_cart_update(c, u) ==
    update_one_set_empty(c, u)

\* POST /api/cart/{user_id}/clear: the request and its update_one.
clear_cart(w, u) ==
    /\ pc[w] = "idle"
    /\ Admit
    /\ cart' = clear_cart_update(cart, u)
    /\ pc' = [pc EXCEPT ![w] = "gc_find"]
    /\ req' = [req EXCEPT ![w] = [NoReq EXCEPT !.op = "clear", !.user = u,
                                               !.before = cart_items(cart, u)]]
    /\ resp' = NoResp
    /\ UNCHANGED <<restaurant, menuitem, order, clock, lastCartId>>

\* -------------------------------------------------------------- orders
place_order_insert_skipped(o, fields, now) ==
    o

\* place_order's create_document("order", order)
place_order_insert(o, fields, now) ==
    create_document(o, fields, now)

\* POST /api/orders: the request up to and including create_document.
place_order(w, u, rid, body) ==
    /\ pc[w] = "idle"
    /\ IF to_object_id(rid).code # 200
       THEN /\ resp' = [NoResp EXCEPT !.op = "order", !.code = to_object_id(rid).code,
                                      !.arg = rid]
            /\ UNCHANGED <<order, clock, pc, req, requests>>
       ELSE /\ Admit
            /\ \E now \in {clock, clock + 1} :
                  /\ clock' = now
                  /\ order' = place_order_insert(order,
                                  [user_id |-> u, items |-> body.items,
                                   status |-> Order(body.status)], now)
            /\ pc' = [pc EXCEPT ![w] = "po_clear"]
            /\ req' = [req EXCEPT ![w] = [NoReq EXCEPT !.op = "order", !.user = u,
                                                       !.id = Len(order) + 1,
                                                       !.arg = rid]]
            /\ resp' = NoResp
    /\ UNCHANGED <<restaurant, menuitem, cart, lastCartId>>

place_order_clear_cart_skipped(c, u) ==
    c

\* place_order's db["cart"].update_one(..., {"$set": {"items": []}})
place_order_clear_cart(c, u) ==
    update_one_set_empty(c, u)

\* place_order from its update_one to the reply {"id": ..., "status": "placed"}.
place_order_clear(w) ==
    /\ pc[w] = "po_clear"
    /\ cart' = place_order_clear_cart(cart, req[w].user)
    /\ resp' = [NoResp EXCEPT !.op = "order", !.code = 200, !.user = req[w].user,
                              !.id = req[w].id, !.status = "placed",
                              !.arg = req[w].arg,
                              !.before = cart_items(cart, req[w].user)]
    /\ pc' = [pc EXCEPT ![w] = "idle"]
    /\ req' = [req EXCEPT ![w] = NoReq]
    /\ UNCHANGED <<restaurant, menuitem, order, clock, lastCartId, requests>>

\* Insertion of d into a sequence sorted by created_at, newest first.
RECURSIVE InsertDesc(_, _)
InsertDesc(d, s) ==
    IF s = <<>> THEN <<d>>
    ELSE IF Head(s).created_at >= d.created_at
         THEN <<Head(s)>> \o InsertDesc(d, Tail(s))
         ELSE <<d>> \o s

RECURSIVE InsertAsc(_, _)
InsertAsc(d, s) ==
    IF s = <<>> THEN <<d>>
    ELSE IF Head(s).created_at <= d.created_at
         THEN <<Head(s)>> \o InsertAsc(d, Tail(s))
         ELSE <<d>> \o s

RECURSIVE sort_created_at_asc(_)
sort_created_at_asc(s) ==
    IF s = <<>> THEN <<>>
    ELSE InsertAsc(s[Len(s)], sort_created_at_asc(SubSeq(s, 1, Len(s) - 1)))

\* .sort("created_at", -1)
RECURSIVE sort_created_at_desc(_)
sort_created_at_desc(s) ==
    IF s = <<>> THEN <<>>
    ELSE InsertDesc(s[Len(s)], sort_created_at_desc(SubSeq(s, 1, Len(s) - 1)))

\* db["order"].find({"user_id": u}): the matching documents, in the order the
\* scan meets them, which the store does not fix.
find_orders(o, u) ==
    LET hits == {o[i] : i \in {j \in 1..Len(o) : o[j].user_id = u}}
        n == Cardinality(hits)
    IN {s \in [1..n -> hits] : {s[k] : k \in 1..n} = hits}

\* GET /api/orders/{user_id}
list_orders(w, u) ==
    /\ pc[w] = "idle"
    /\ \E found \in find_orders(order, u) :
          resp' = [NoResp EXCEPT !.op = "list", !.code = 200, !.user = u,
                                 !.list = sort_created_at_desc(found)]
    /\ UNCHANGED <<store, pc, req, lastCartId, requests>>

\* ------------------------------------------------------------- failure
\* The store call a request is about to make raises (or the worker dies):
\* the request ends in a 500 and its remaining store calls are never made.
store_failure(w) ==
    /\ pc[w] # "idle"
    /\ resp' = [NoResp EXCEPT !.op = req[w].op, !.code = 500, !.user = req[w].user,
                              !.id = req[w].id, !.before = req[w].before,
                              !.item = req[w].item, !.arg = req[w].arg]
    /\ pc' = [pc EXCEPT ![w] = "idle"]
    /\ req' = [req EXCEPT ![w] = NoReq]
    /\ UNCHANGED <<store, lastCartId, requests>>

\* ---------------------------------------------------------------- system
Step(w) ==
    \/ create_restaurant(w)
    \/ \E rid \in IdStrings(MaxRestaurants + 1) : create_menu_item(w, rid)
    \/ \E u \in Users : get_cart(w, u)
    \/ get_cart_find(w)
    \/ get_cart_insert(w)
    \/ \E u \in Users, it \in CartItemInputs : add_to_cart(w, u, it)
    \/ \E u \in Users : clear_cart(w, u)
    \/ \E u \in Users, rid \in IdStrings(1), body \in OrderInputs :
          place_order(w, u, rid, body)
    \/ place_order_clear(w)
    \/ \E u \in Users : list_orders(w, u)
    \/ store_failure(w)

\* The one process main.py starts: a request runs to its reply, or to a
\* failure, before the next is taken.
Next == Step(MainWorker)

Spec == Init /\ [][Next]_vars

\* Several workers over the one store: requests interleave between store calls.
WorkersNext == \E w \in Workers : Step(w)

WorkersSpec == Init /\ [][WorkersNext]_vars

\* ================================================================ claims
\* The error kinds of the interface: InvalidArgument is a 400-class reply,
\* NotFound is 404.
InvalidArgument == {400, 422}
NotFound == 404

CartDocsOf(u) == {i \in 1..Len(cart) : cart[i].user_id = u}
OrdersOf(u) == {order[i] : i \in {j \in 1..Len(order) : order[j].user_id = u}}
MenuItemExists(id_str) ==
    ObjectIdValid(id_str) /\ \E m \in menuitem : m.id = ObjectId(id_str)
RestaurantExists(id_str) ==
    ObjectIdValid(id_str) /\ ObjectId(id_str) \in restaurant

\* C1: in every reachable state the cart collection holds at most one cart
\* document per user id, whatever the interleaving of get_cart and
\* add_to_cart requests.
C1_AtMostOneCartPerUser ==
    \A u \in Users : Cardinality(CartDocsOf(u)) <= 1

\* C2: right after a successful place_order of user u, the cart get_cart
\* would show for u has no items, whatever it held before and whatever the
\* order carries.
C2_PlaceOrderEmptiesCart ==
    (resp.op = "order" /\ resp.code = 200) =>
        /\ cart_items(cart, resp.user) = <<>>
        /\ \A i \in CartDocsOf(resp.user) : cart[i].items = <<>>

\* C2's case: an order that carries no items was placed over a cart that
\* held some.
C2_Witness ==
    /\ resp.op = "order" /\ resp.code = 200
    /\ resp.before # <<>>
    /\ \E i \in 1..Len(order) : order[i].id = resp.id /\ order[i].items = <<>>

\* C3: a GET /api/cart/{u} that arrives after an earlier one has replied
\* with a cart id replies with that same id, and the user has one cart
\* document.
C3_SameCartIdOnLaterCalls ==
    (resp.op = "get" /\ resp.code = 200 /\ resp.earlier # 0) =>
        /\ resp.id = resp.earlier
        /\ Cardinality(CartDocsOf(resp.user)) = 1

\* C3's case: a later GET, with items added since the earlier one.
C3_Witness ==
    /\ resp.op = "get" /\ resp.code = 200
    /\ resp.earlier # 0
    /\ resp.items # <<>>

\* C4: a successful add_to_cart replies with the cart's previous items
\* followed by the new item, held by a cart document of the user; nothing
\* is merged.
C4_AddAppendsOneEntry ==
    (resp.op = "add" /\ resp.code = 200) =>
        /\ resp.items = Append(resp.before, resp.item)
        /\ cart_items(cart, resp.user) = resp.items
        /\ \E i \in CartDocsOf(resp.user) : cart[i].id = resp.id

\* C4's case: the same menu item added twice gives two equal entries.
C4_Witness ==
    /\ resp.op = "add" /\ resp.code = 200
    /\ Len(resp.items) = 2
    /\ resp.items[1] = resp.items[2]
    /\ resp.items[2] = resp.item

\* C5: an add_to_cart that fails (quantity < 1 or a malformed menu_item_id:
\* InvalidArgument; a well-formed menu_item_id of no menu item: NotFound)
\* leaves the cart collection as it was; and an item with one of these
\* faults is refused.
C5_FailedAddLeavesCarts ==
    [][/\ (resp'.op = "add" /\ resp'.code \in InvalidArgument \cup {NotFound})
             => cart' = cart
       /\ (resp'.op = "add" /\ resp'.code # 500
           /\ (resp'.item.quantity < 1 \/ ~ObjectIdValid(resp'.item.menu_item_id)))
             => resp'.code \in InvalidArgument
       /\ (resp'.op = "add" /\ resp'.code # 500
           /\ resp'.item.quantity >= 1 /\ ObjectIdValid(resp'.item.menu_item_id)
           /\ ~MenuItemExists(resp'.item.menu_item_id))
             => resp'.code = NotFound
       /\ \A w \in Workers :
             (pc[w] = "idle" /\ pc'[w] = "gc_find" /\ req'[w].op = "add")
             => (req'[w].item.quantity >= 1
                 /\ MenuItemExists(req'[w].item.menu_item_id))]_vars

\* C5's case: an add_to_cart was refused with NotFound while a cart exists.
C5_Witness ==
    /\ resp.op = "add" /\ resp.code = NotFound
    /\ cart # <<>>

\* C6: clear_cart replies with a cart of the user that has no items, also
\* when the user had no cart document before.
C6_ClearReturnsEmptyCart ==
    (resp.op = "clear" /\ resp.code = 200) =>
        /\ resp.items = <<>>
        /\ \E i \in CartDocsOf(resp.user) : cart[i].id = resp.id
        /\ cart_items(cart, resp.user) = <<>>

\* C6's case: the cart held items before the clear.
C6_Witness ==
    resp.op = "clear" /\ resp.code = 200 /\ resp.before # <<>>

\* C7 as stated: a create_menu_item whose restaurant_id does not resolve to
\* an existing restaurant replies NotFound and leaves menuitem unchanged.
C7_UnresolvedIsNotFound ==
    [][(resp'.op = "create_menu_item" /\ ~RestaurantExists(resp'.arg))
          => (resp'.code = NotFound /\ menuitem' = menuitem)]_vars

\* C7 as amended: a create_menu_item whose restaurant_id is well-formed but
\* is no restaurant's replies NotFound, one whose restaurant_id is malformed
\* replies InvalidArgument, both leave menuitem unchanged; and every menu
\* item held references a restaurant that exists.
C7_UnresolvedNeverPersists ==
    /\ [][(resp'.op = "create_menu_item" /\ ~RestaurantExists(resp'.arg))
             => /\ menuitem' = menuitem
                /\ IF ObjectIdValid(resp'.arg) THEN resp'.code = NotFound
                   ELSE resp'.code \in InvalidArgument]_vars
    /\ [](\A m \in menuitem : RestaurantExists(m.restaurant_id))

\* C7's case: a create_menu_item was refused with NotFound.
C7_Witness ==
    /\ resp.op = "create_menu_item" /\ resp.code = NotFound
    /\ ObjectIdValid(resp.arg) /\ ~RestaurantExists(resp.arg)

C9_StatusDocumentedAndReported ==
    /\ \A i \in 1..Len(order) : order[i].status \in DocumentedStatuses
    /\ (resp.op = "order" /\ resp.code = 200) =>
          \A i \in 1..Len(order) :
              order[i].id = resp.id => resp.status = order[i].status

\* C10: place_order inserts the order in one store write and clears the cart
\* in a later one: the insert leaves the carts alone, the clear happens only
\* with the order already held, orders once held stay held (also when the
\* request fails between the two writes), and a place_order refused for a
\* malformed restaurant_id writes nothing.
C10_InsertThenClear ==
    [][/\ \A w \in Workers :
             (pc[w] = "idle" /\ pc'[w] = "po_clear") =>
                /\ cart' = cart
                /\ Len(order') = Len(order) + 1
                /\ order'[Len(order')].id = req'[w].id
                /\ order'[Len(order')].user_id = req'[w].user
       /\ \A w \in Workers :
             (pc[w] = "po_clear" /\ cart' # cart) =>
                \E i \in 1..Len(order) :
                    order[i].id = req[w].id /\ order[i].user_id = req[w].user
       /\ (resp'.op = "order" /\ ~ObjectIdValid(resp'.arg)) =>
                /\ resp'.code \in InvalidArgument
                /\ cart' = cart /\ order' = order
       /\ Len(order') >= Len(order)
       /\ \A i \in 1..Len(order) : order'[i] = order[i]]_vars

\* C10's case: the request failed between its two writes: the order is held
\* and the user's cart still has its items.
C10_Witness ==
    /\ resp.op = "order" /\ resp.code = 500
    /\ \E i \in 1..Len(order) : order[i].id = resp.id /\ order[i].user_id = resp.user
    /\ cart_items(cart, resp.user) # <<>>

====
